---- MODULE Spec2Model ----
(***************************************************************************)
(* Model of the certificate endpoint of acme-dns-tools:                    *)
(* internal/api/certs.go, CertsHandler and isAllowedByFCrDNS.              *)
(*                                                                         *)
(* Go strings are modelled as sequences of one-character strings, so that  *)
(* prefix trimming, splitting, substring search, case folding and path     *)
(* cleaning are computed character by character, as the library does.      *)
(***************************************************************************)
EXTENDS Naturals, Integers, Sequences, FiniteSets, TLC

----------------------------------------------------------------------------
(* Go string library, as used by certs.go                                  *)

\* s[i:] of Go, with TLA+ indices starting at 1
From(s, i) == SubSeq(s, i, Len(s))

\* strings.HasPrefix
HasPrefix(s, p) == Len(s) >= Len(p) /\ SubSeq(s, 1, Len(p)) = p

\* strings.HasSuffix
HasSuffix(s, x) == Len(s) >= Len(x) /\ From(s, Len(s) - Len(x) + 1) = x

\* strings.TrimPrefix: removes one leading occurrence of p, if there is one
TrimPrefix(s, p) == IF HasPrefix(s, p) THEN From(s, Len(p) + 1) ELSE s

\* strings.TrimSuffix: removes one trailing occurrence of x, if there is one
TrimSuffix(s, x) == IF HasSuffix(s, x) THEN SubSeq(s, 1, Len(s) - Len(x)) ELSE s

\* strings.Index, 1-based; 0 when sub does not occur in s
Index(s, sub) ==
    LET hits == { i \in 1..(Len(s) - Len(sub) + 1) : SubSeq(s, i, i + Len(sub) - 1) = sub }
    IN  IF hits = {} THEN 0 ELSE CHOOSE i \in hits : \A k \in hits : i <= k

\* strings.LastIndex, 1-based; 0 when sub does not occur in s
LastIndex(s, sub) ==
    LET hits == { i \in 1..(Len(s) - Len(sub) + 1) : SubSeq(s, i, i + Len(sub) - 1) = sub }
    IN  IF hits = {} THEN 0 ELSE CHOOSE i \in hits : \A k \in hits : i >= k

\* strings.Contains
Contains(s, sub) == Index(s, sub) # 0

\* strings.SplitN(s, sep, n) for n # 0 and a non-empty sep: at most n pieces
\* (all of them when n < 0), the last piece being the unsplit remainder.
\* The pieces are cut at the leftmost occurrences of sep; the separators of
\* this program are one character long, so occurrences never overlap.
SplitN(s, sep, n) ==
    LET occ == { k \in 1..(Len(s) - Len(sep) + 1) :
                    SubSeq(s, k, k + Len(sep) - 1) = sep }
        m == IF n < 0 \/ Cardinality(occ) < n - 1 THEN Cardinality(occ) ELSE n - 1
        cut(j) == IF j = 0 THEN 1 - Len(sep)
                  ELSE IF j = m + 1 THEN Len(s) + 1
                  ELSE CHOOSE k \in occ : Cardinality({ x \in occ : x < k }) = j - 1
    IN  [ j \in 1..(m + 1) |-> SubSeq(s, cut(j - 1) + Len(sep), cut(j) - 1) ]

UpperChars == <<"A","B","C","D","E","F","G","H","I","J","K","L","M",
                "N","O","P","Q","R","S","T","U","V","W","X","Y","Z">>
LowerChars == <<"a","b","c","d","e","f","g","h","i","j","k","l","m",
                "n","o","p","q","r","s","t","u","v","w","x","y","z">>

\* simple case folding of the ASCII letters: upper case to lower case
FoldTable ==
    [c \in { UpperChars[i] : i \in 1..Len(UpperChars) } |->
        LowerChars[CHOOSE i \in 1..Len(UpperChars) : UpperChars[i] = c]]

\* simple case folding of one ASCII character
FoldChar(c) == IF c \in DOMAIN FoldTable THEN FoldTable[c] ELSE c

\* strings.EqualFold on ASCII strings
EqualFold(s, t) ==
    /\ Len(s) = Len(t)
    /\ \A i \in 1..Len(s) : FoldChar(s[i]) = FoldChar(t[i])

----------------------------------------------------------------------------
(* path/filepath on a Unix build: Clean and Join                           *)

Slash == <<"/">>
Dot == <<".">>
DotDot == <<".",".">>
Backslash == <<"\\">>

\* elements joined by "/"
RECURSIVE JoinSlash(_)
JoinSlash(elems) ==
    IF elems = << >> THEN << >>
    ELSE IF Len(elems) = 1 THEN elems[1]
    ELSE elems[1] \o Slash \o JoinSlash(Tail(elems))

\* the element loop of filepath.Clean: empty and "." elements are dropped, ".."
\* removes the element before it, is dropped at the root, and is kept at the
\* start of a relative path
RECURSIVE CleanElems(_, _, _)
CleanElems(elems, out, rooted) ==
    IF elems = << >> THEN out
    ELSE LET e == Head(elems)
             rest == Tail(elems)
         IN  IF e = << >> \/ e = Dot
             THEN CleanElems(rest, out, rooted)
             ELSE IF e = DotDot
             THEN IF out # << >> /\ out[Len(out)] # DotDot
                  THEN CleanElems(rest, SubSeq(out, 1, Len(out) - 1), rooted)
                  ELSE IF rooted
                  THEN CleanElems(rest, out, rooted)
                  ELSE CleanElems(rest, Append(out, e), rooted)
             ELSE CleanElems(rest, Append(out, e), rooted)

\* the element of a one-element set; { e(x) : x \in {v} } evaluates v once, as
\* a Go local is assigned once, however often e uses it
TheOne(S) == CHOOSE x \in S : TRUE

\* filepath.Clean
Clean(path) ==
    TheOne({ IF p = << >> THEN Dot
             ELSE TheOne({ TheOne({ LET body == JoinSlash(kept)
                                    IN  IF p[1] = "/" THEN Slash \o body
                                        ELSE IF body = << >> THEN Dot
                                        ELSE body
                                    : kept \in { CleanElems(elems, << >>, p[1] = "/") } })
                           : elems \in { SplitN(p, Slash, -1) } })
             : p \in {path} })

\* filepath.Join: the non-empty elements joined by "/", cleaned
FilepathJoin(elems) ==
    LET nonEmpty == SelectSeq(elems, LAMBDA e : e # << >>)
    IN  IF nonEmpty = << >> THEN << >> ELSE Clean(JoinSlash(nonEmpty))

----------------------------------------------------------------------------
(* net.SplitHostPort                                                       *)

SplitErr == [err |-> TRUE, host |-> << >>]
SplitOk(h) == [err |-> FALSE, host |-> h]

SplitHostPort(hostport) ==
    LET i == LastIndex(hostport, <<":">>)
    IN  IF i = 0 THEN SplitErr                        \* missing port
        ELSE IF hostport[1] = "["
        THEN LET end == Index(hostport, <<"]">>)
             IN  IF end = 0 THEN SplitErr             \* missing ']'
                 ELSE IF end = Len(hostport) THEN SplitErr
                 ELSE IF end + 1 # i THEN SplitErr    \* ']' not right before the last ':'
                 ELSE IF Contains(From(hostport, 2), <<"[">>) THEN SplitErr
                 ELSE IF Contains(From(hostport, end + 1), <<"]">>) THEN SplitErr
                 ELSE SplitOk(SubSeq(hostport, 2, end - 1))
        ELSE LET host == SubSeq(hostport, 1, i - 1)
             IN  IF Contains(host, <<":">>) THEN SplitErr   \* too many colons
                 ELSE IF Contains(hostport, <<"[">>) THEN SplitErr
                 ELSE IF Contains(hostport, <<"]">>) THEN SplitErr
                 ELSE SplitOk(host)

----------------------------------------------------------------------------
(* Data of certs.go                                                        *)

\* the prefix of the expected Authorization header value
BearerPrefix == <<"B","e","a","r","e","r"," ">>

\* the routing prefix trimmed from r.URL.Path
CertsPrefix == <<"/","c","e","r","t","s","/">>

FullchainPem == <<"f","u","l","l","c","h","a","i","n",".","p","e","m">>
PrivkeyPem == <<"p","r","i","v","k","e","y",".","p","e","m">>
CertPem == <<"c","e","r","t",".","p","e","m">>
ChainPem == <<"c","h","a","i","n",".","p","e","m">>

\* the only file names that may be served
allowedCertFiles == { FullchainPem, PrivkeyPem, CertPem, ChainPem }

\* the en dash of the message of the shape test, as the bytes of its UTF-8
\* encoding (U+2013)
EnDash == << 226, 128, 147 >>

\* the message of the shape test: "Bad Request ", the en dash, " expected ..."
ShapeMessage == << "Bad Request ", EnDash, " expected /certs/{domain}/{file}" >>

\* what http.Error writes: the status, a plain-text content type, the pieces
\* of the message and a newline
HttpErrorOf(pieces, code) ==
    [status |-> code, contentType |-> "text/plain; charset=utf-8", body |-> pieces \o << "\n" >>]

\* http.Error with a message of ASCII characters
HttpError(msg, code) == HttpErrorOf(<< msg >>, code)

\* the success response: w.Header().Set, w.WriteHeader(200), w.Write(data)
PemResponse(data) ==
    [status |-> 200, contentType |-> "application/x-pem-file", body |-> data]

\* no response written yet
NoResponse == [status |-> 0, contentType |-> "", body |-> << >>]

----------------------------------------------------------------------------
(* The environment: resolver answers and files                             *)

IP5 == <<"2","0","3",".","0",".","1","1","3",".","5">>
IP9 == <<"2","0","3",".","0",".","1","1","3",".","9">>
IP6 == <<"2","0","0","1",":","d","b","8",":",":","5">>
IPs == { IP5, IP9, IP6 }

HostClient == <<"c","l","i","e","n","t",".","e","x","a","m","p","l","e",".","c","o","m">>
HostClientUpper == <<"C","l","i","e","n","t",".","E","x","a","m","p","l","e",".","C","O","M">>
HostOther == <<"o","t","h","e","r",".","e","x","a","m","p","l","e",".","n","e","t">>
HostNames == { HostClient, HostClientUpper, HostOther }

\* names as net.LookupAddr returns them: fully qualified, with the trailing dot
\* (one resolver answer without it, to exercise TrimSuffix)
PtrNames == { HostClient \o Dot, HostClientUpper \o Dot, HostOther \o Dot, HostClient }

\* a lookup's result: (values, err); values are empty when err is set
DnsErr == [err |-> TRUE, vals |-> << >>]
DnsOk(v) == [err |-> FALSE, vals |-> v]

\* the sequences over S of length at most n
SeqsUpTo(S, n) == UNION { [1..k -> S] : k \in 0..n }

MaxPtrs == 2
MaxAllow == 2

ReverseAnswers == { DnsErr } \cup { DnsOk(v) : v \in SeqsUpTo(PtrNames, MaxPtrs) }
ForwardAnswers == { DnsErr, DnsOk(<< IP9 >>), DnsOk(<< IP9, IP5 >>) }

\* os.ReadFile's outcomes: the bytes, or an error that is ErrNotExist, or another error
ENOENT == [err |-> "ENOENT", data |-> << >>]
EIO == [err |-> "EIO", data |-> << >>]
FileData(bytes) == [err |-> "", data |-> bytes]

\* the bytes stored at a path (distinct for distinct paths)
BytesAt(p) == << "PEM" >> \o p

ExampleOrg == <<"e","x","a","m","p","l","e",".","o","r","g">>
SecretTxt == <<"s","e","c","r","e","t",".","t","x","t">>

Roots == { <<"/","e","t","c","/","l","e","t","s","e","n","c","r","y","p","t","/","l","i","v","e">>, <<"c","e","r","t","s","/">> }

\* the paths the file systems of the model populate: certificate files in the
\* layout root/domain/file, a file outside the allowed set, a file directly in
\* the root, and files outside the root
FsPaths(root) ==
    { FilepathJoin(<< root, ExampleOrg, FullchainPem >>),
      FilepathJoin(<< root, ExampleOrg, PrivkeyPem >>),
      FilepathJoin(<< root, ExampleOrg, SecretTxt >>),
      FilepathJoin(<< root, ExampleOrg, <<"x">>, FullchainPem >>),
      FilepathJoin(<< root, FullchainPem >>),
      FilepathJoin(<< root, DotDot, FullchainPem >>),
      FilepathJoin(<< root, DotDot, <<"e","t","c">>, <<"p","a","s","s","w","d">>, FullchainPem >>) }

FileSystems(root) ==
    { [p \in FsPaths(root) |-> FileData(BytesAt(p))],
      [p \in FsPaths(root) |-> ENOENT],
      [p \in FsPaths(root) |-> EIO],
      [p \in FsPaths(root) |->
          IF p = FilepathJoin(<< root, ExampleOrg, FullchainPem >>) THEN ENOENT
          ELSE IF p = FilepathJoin(<< root, ExampleOrg, PrivkeyPem >>) THEN EIO
          ELSE FileData(BytesAt(p))] }

----------------------------------------------------------------------------
(* Requests                                                                *)

Token == <<"s","3","c","r","3","t">>

\* values of r.Header.Get("Authorization"): the empty string when the header is missing
AuthHeaders ==
    { << >>,
      BearerPrefix \o Token,
      <<"B","e","a","r","e","r"," ","s","3","c","r","3","T">>,
      <<"B","a","s","i","c"," ","s","3","c","r","3","t">>,
      <<"B","e","a","r","e","r"," "," ","s","3","c","r","3","t">>,
      <<"B","e","a","r","e","r","s","3","c","r","3","t">>,
      <<"b","e","a","r","e","r"," ","s","3","c","r","3","t">>,
      <<"B","e","a","r","e","r"," ","s","3","c","r","3","t"," ">> }

\* values of r.RemoteAddr
RemoteAddrs ==
    { IP5 \o <<":","4","7","1","1">>,
      IP9 \o <<":","4","7","1","1">>,
      IP5,
      <<"[","2","0","0","1",":","d","b","8",":",":","5","]",":","4","4","3">>,
      <<"2","0","0","1",":","d","b","8",":",":","5",":","4","4","3">> }

\* what follows /certs/ in the sampled request paths
PathTails ==
    { <<"e","x","a","m","p","l","e",".","o","r","g","/","f","u","l","l","c","h","a","i","n",".","p","e","m">>,
      <<"e","x","a","m","p","l","e",".","o","r","g","/","p","r","i","v","k","e","y",".","p","e","m">>,
      <<"e","x","a","m","p","l","e",".","o","r","g","/","c","e","r","t",".","p","e","m">>,
      <<"e","x","a","m","p","l","e",".","o","r","g","/","c","h","a","i","n",".","p","e","m">>,
      <<"e","x","a","m","p","l","e",".","o","r","g","/","s","e","c","r","e","t",".","t","x","t">>,
      <<"e","x","a","m","p","l","e",".","o","r","g","/","C","E","R","T",".","P","E","M">>,
      <<"e","x","a","m","p","l","e",".","o","r","g","/","x","/","f","u","l","l","c","h","a","i","n",".","p","e","m">>,
      <<"e","x","a","m","p","l","e",".","o","r","g","/","f","u","l","l","c","h","a","i","n",".","p","e","m","/">>,
      <<"e","x","a","m","p","l","e",".","o","r","g","/">>,
      <<"e","x","a","m","p","l","e",".","o","r","g">>,
      <<"/","f","u","l","l","c","h","a","i","n",".","p","e","m">>,
      <<>>,
      <<"/">>,
      <<".","/","f","u","l","l","c","h","a","i","n",".","p","e","m">>,
      <<".",".","/","f","u","l","l","c","h","a","i","n",".","p","e","m">>,
      <<".",".","/","s","e","c","r","e","t",".","t","x","t">>,
      <<".",".","/","e","t","c","/","p","a","s","s","w","d","/","f","u","l","l","c","h","a","i","n",".","p","e","m">>,
      <<"a",".",".","b","/","f","u","l","l","c","h","a","i","n",".","p","e","m">>,
      <<"a","\\","b","/","f","u","l","l","c","h","a","i","n",".","p","e","m">>,
      <<"a","\\","b","/","s","e","c","r","e","t",".","t","x","t">>,
      <<".",".">> }

\* values of r.URL.Path: the sampled tails under /certs/, and two paths without the prefix
UrlPaths ==
    { CertsPrefix \o t : t \in PathTails } \cup { <<"/","c","e","r","t","s">>, <<"/","o","t","h","e","r","/","e","x","a","m","p","l","e",".","o","r","g","/","f","u","l","l","c","h","a","i","n",".","p","e","m">> }

Requests == [authorization : AuthHeaders, remoteAddr : RemoteAddrs, path : UrlPaths]

NoRequest == [authorization |-> << >>, remoteAddr |-> << >>, path |-> << >>]

----------------------------------------------------------------------------
(* State                                                                   *)

VARIABLES
    bearerToken,    \* CertsHandler's bearerToken parameter, captured by the closure
    dnsAllowlist,   \* its dnsAllowlist parameter: a sequence of hostnames
    certsBaseDir,   \* its certsBaseDir parameter
    rdns,           \* the resolver's reverse zone: address -> (names, err)
    fdns,           \* the resolver's forward zone: hostname -> (addresses, err)
    fs,             \* the file system: path -> outcome of os.ReadFile
    silent,         \* the addresses and names whose lookup gets no reply and is not given up
    pc,             \* per handler invocation: where it stands
    req,            \* per handler invocation: the request
    loc,            \* per handler invocation: its local variables
    resp,           \* per handler invocation: the response written
    trace           \* per handler invocation: the resolver and file calls made, in order

vars == << bearerToken, dnsAllowlist, certsBaseDir, rdns, fdns, fs, silent, pc, req, loc, resp, trace >>
config == << bearerToken, dnsAllowlist, certsBaseDir >>
env == << rdns, fdns, fs, silent >>

NoLocals ==
    [clientIP |-> << >>, ptrs |-> << >>, i |-> 0, j |-> 0, verdict |-> "pending",
     domain |-> << >>, fileName |-> << >>, certPath |-> << >>]

Event(op, arg) == [op |-> op, arg |-> arg]

\* whether a lookup of name returns to its caller. net.LookupAddr and
\* net.LookupHost are called without a context or a deadline, so the call
\* returns when the resolver has an answer or gives up by itself, and not at
\* all for the names of silent
LookupReturns(name) == name \notin silent

\* net.LookupAddr against the reverse zone: an address without PTR data is an
\* error, as is a query the resolver gave up on
ReverseLookup(ip) == IF ip \in DOMAIN rdns THEN rdns[ip] ELSE DnsErr

\* net.LookupHost against the forward zone: an unknown name is an error, as is
\* a query the resolver gave up on
ForwardLookup(host) == IF host \in DOMAIN fdns THEN fdns[host] ELSE DnsErr

\* os.ReadFile: a path the file system does not hold does not exist
OsReadFile(p) == IF p \in DOMAIN fs THEN fs[p] ELSE ENOENT

----------------------------------------------------------------------------
(* isAllowedByFCrDNS                                                       *)

\* the hostname compared and resolved for a PTR name
PtrHostname(ptr) == TrimSuffix(ptr, Dot)

\* mutant: every PTR name is forward-resolved, allowlisted or not
NameMatches_Any(hostname, allowed) == TRUE

\* mutant: the names are compared byte by byte
NameMatches_Exact(hostname, allowed) == hostname = allowed

\* the test that guards the forward lookup of the inner loop
NameMatches(hostname, allowed) == EqualFold(hostname, allowed)

\* the next position (i, j) of the nested loops, from (i, j) on, at which the
\* hostname of ptrs[i] matches allowlist[j]; << 0, 0 >> when the loops run out
RECURSIVE NextMatch(_, _, _, _)
NextMatch(ptrs, allowlist, i, j) ==
    IF i > Len(ptrs) THEN << 0, 0 >>
    ELSE IF j > Len(allowlist) THEN NextMatch(ptrs, allowlist, i + 1, 1)
    ELSE IF NameMatches(PtrHostname(ptrs[i]), allowlist[j]) THEN << i, j >>
    ELSE NextMatch(ptrs, allowlist, i, j + 1)

\* mutant: any successful forward answer confirms
AddrsContain_Any(addrs, clientIP) == Len(addrs) > 0

\* the scan of the returned addresses for clientIP
AddrsContain(addrs, clientIP) == \E k \in 1..Len(addrs) : addrs[k] = clientIP

\* mutant: a forward lookup that fails or does not confirm ends the evaluation
AfterMiss_Abort(ptrs, allowlist, i, j) == << 0, 0 >>

\* where the loops go after a forward lookup that failed or did not confirm
AfterMiss(ptrs, allowlist, i, j) == NextMatch(ptrs, allowlist, i, j + 1)

\* the loops resume at position m, or end with "return false"
ResumeAt(r, m) ==
    IF m = << 0, 0 >>
    THEN /\ loc' = [loc EXCEPT ![r].verdict = "denied", ![r].i = 0, ![r].j = 0]
         /\ pc' = [pc EXCEPT ![r] = "gate"]
    ELSE /\ loc' = [loc EXCEPT ![r].i = m[1], ![r].j = m[2]]
         /\ pc' = [pc EXCEPT ![r] = "forward"]

\* the loops from position m on, as a value: true at the first matching name
\* whose forward lookup returns clientIP
RECURSIVE LoopsFrom(_, _, _, _)
LoopsFrom(ptrs, allowlist, clientIP, m) ==
    IF m = << 0, 0 >> THEN FALSE
    ELSE LET ans == ForwardLookup(PtrHostname(ptrs[m[1]]))
         IN  IF ~ans.err /\ AddrsContain(ans.vals, clientIP) THEN TRUE
             ELSE LoopsFrom(ptrs, allowlist, clientIP, AfterMiss(ptrs, allowlist, m[1], m[2]))

\* the value isAllowedByFCrDNS returns when net.LookupAddr answers rev
FCrDNSVerdict(clientIP, allowlist, rev) ==
    IF Len(allowlist) = 0 THEN FALSE
    ELSE IF rev.err \/ Len(rev.vals) = 0 THEN FALSE
    ELSE LoopsFrom(rev.vals, allowlist, clientIP, NextMatch(rev.vals, allowlist, 1, 1))

\* mutant: the reverse lookup is made before the allowlist is looked at
LookupAddr_LookupFirst(r) ==
    /\ pc[r] = "fcrdns"
    /\ LET ans == ReverseLookup(loc[r].clientIP)
           m == IF ans.err \/ Len(ans.vals) = 0 \/ Len(dnsAllowlist) = 0 THEN << 0, 0 >>
                ELSE NextMatch(ans.vals, dnsAllowlist, 1, 1)
       IN  /\ LookupReturns(loc[r].clientIP)
           /\ trace' = [trace EXCEPT ![r] = Append(@, Event("LookupAddr", loc[r].clientIP))]
           /\ IF m = << 0, 0 >>
              THEN /\ loc' = [loc EXCEPT ![r].ptrs = ans.vals, ![r].verdict = "denied"]
                   /\ pc' = [pc EXCEPT ![r] = "gate"]
              ELSE /\ loc' = [loc EXCEPT ![r].ptrs = ans.vals, ![r].i = m[1], ![r].j = m[2]]
                   /\ pc' = [pc EXCEPT ![r] = "forward"]
    /\ UNCHANGED << config, env, req, resp >>

\* entry of isAllowedByFCrDNS up to the first forward lookup: the empty-allowlist
\* test, the reverse lookup, and the loops up to the first matching name
LookupAddr(r) ==
    /\ pc[r] = "fcrdns"
    /\ IF Len(dnsAllowlist) = 0
       THEN /\ loc' = [loc EXCEPT ![r].verdict = "denied"]
            /\ pc' = [pc EXCEPT ![r] = "gate"]
            /\ UNCHANGED trace
       ELSE LET ans == ReverseLookup(loc[r].clientIP)
            IN  /\ LookupReturns(loc[r].clientIP)
                /\ trace' = [trace EXCEPT ![r] = Append(@, Event("LookupAddr", loc[r].clientIP))]
                /\ IF ans.err \/ Len(ans.vals) = 0
                   THEN /\ loc' = [loc EXCEPT ![r].verdict = "denied"]
                        /\ pc' = [pc EXCEPT ![r] = "gate"]
                   ELSE LET m == NextMatch(ans.vals, dnsAllowlist, 1, 1)
                        IN  IF m = << 0, 0 >>
                            THEN /\ loc' = [loc EXCEPT ![r].ptrs = ans.vals, ![r].verdict = "denied"]
                                 /\ pc' = [pc EXCEPT ![r] = "gate"]
                            ELSE /\ loc' = [loc EXCEPT ![r].ptrs = ans.vals, ![r].i = m[1], ![r].j = m[2]]
                                 /\ pc' = [pc EXCEPT ![r] = "forward"]
    /\ UNCHANGED << config, env, req, resp >>

\* one forward confirmation: net.LookupHost of the matched hostname, the scan of
\* its addresses, and the loops up to the next matching name
LookupHost(r) ==
    /\ pc[r] = "forward"
    /\ LET hostname == PtrHostname(loc[r].ptrs[loc[r].i])
           ans == ForwardLookup(hostname)
       IN  /\ LookupReturns(hostname)
           /\ trace' = [trace EXCEPT ![r] = Append(@, Event("LookupHost", hostname))]
           /\ IF ~ans.err /\ AddrsContain(ans.vals, loc[r].clientIP)
              THEN /\ loc' = [loc EXCEPT ![r].verdict = "allowed"]
                   /\ pc' = [pc EXCEPT ![r] = "gate"]
              ELSE ResumeAt(r, AfterMiss(loc[r].ptrs, dnsAllowlist, loc[r].i, loc[r].j))
    /\ UNCHANGED << config, env, req, resp >>

----------------------------------------------------------------------------
(* CertsHandler                                                            *)

\* mutant: the header is compared field by field, as strings.Fields splits it
AuthorizationOK_Fields(header, token) ==
    SelectSeq(SplitN(header, << " " >>, -1), LAMBDA f : f # << >>)
        = << SubSeq(BearerPrefix, 1, Len(BearerPrefix) - 1), token >>

\* the bearer test
AuthorizationOK(header, token) == header = BearerPrefix \o token

\* mutant: the backslash is not tested
DomainUnsafe_NoBackslash(domain) ==
    Contains(domain, DotDot) \/ Contains(domain, Slash)

\* mutant: the parent-directory marker is not tested
DomainUnsafe_NoDotDot(domain) ==
    Contains(domain, Slash) \/ Contains(domain, Backslash)

\* the domain test
DomainUnsafe(domain) ==
    Contains(domain, DotDot) \/ Contains(domain, Slash) \/ Contains(domain, Backslash)

\* mutant: any non-empty file name is accepted
FileAllowed_Any(fileName) == fileName # << >>

\* the allowed-file test
FileAllowed(fileName) == fileName \in allowedCertFiles

\* the pieces of the path after the prefix
PathParts(path) == SplitN(TrimPrefix(path, CertsPrefix), Slash, 2)

\* mutant: the empty pieces are not tested
PartsMalformed_LenOnly(parts) == Len(parts) # 2

\* the shape test on the pieces
PartsMalformed(parts) == Len(parts) # 2 \/ parts[1] = << >> \/ parts[2] = << >>

\* path parsing and validation: the error response, or the (domain, file) pair
ValidatePath(path) ==
    LET parts == PathParts(path)
    IN  IF PartsMalformed(parts)
        THEN [ok |-> FALSE, domain |-> << >>, fileName |-> << >>,
              resp |-> HttpErrorOf(ShapeMessage, 400)]
        ELSE IF DomainUnsafe(parts[1])
        THEN [ok |-> FALSE, domain |-> << >>, fileName |-> << >>,
              resp |-> HttpError("Bad Request", 400)]
        ELSE IF ~FileAllowed(parts[2])
        THEN [ok |-> FALSE, domain |-> << >>, fileName |-> << >>,
              resp |-> HttpError("Not Found", 404)]
        ELSE [ok |-> TRUE, domain |-> parts[1], fileName |-> parts[2], resp |-> NoResponse]

\* the path handed to os.ReadFile
CertPath(root, domain, fileName) == FilepathJoin(<< root, domain, fileName >>)

\* mutant: only the missing file is treated as an error
ReadResponse_ServeOnError(out) ==
    IF out.err = "ENOENT" THEN HttpError("Not Found", 404)
    ELSE PemResponse(out.data)

\* mutant: every read error is reported as a missing file
ReadResponse_NotFoundOnAnyError(out) ==
    IF out.err = "" THEN PemResponse(out.data)
    ELSE HttpError("Not Found", 404)

\* the response for an outcome of os.ReadFile
ReadResponse(out) ==
    IF out.err = "" THEN PemResponse(out.data)
    ELSE IF out.err = "ENOENT" THEN HttpError("Not Found", 404)
    ELSE HttpError("Internal Server Error", 500)

\* the server calls the handler with a request of the set Q
Serve(r, Q) ==
    /\ pc[r] = "idle"
    /\ \E q \in Q : req' = [req EXCEPT ![r] = q]
    /\ pc' = [pc EXCEPT ![r] = "bearer"]
    /\ loc' = [loc EXCEPT ![r] = NoLocals]
    /\ resp' = [resp EXCEPT ![r] = NoResponse]
    /\ trace' = [trace EXCEPT ![r] = << >>]
    /\ UNCHANGED << config, env >>

\* mutant: the 401 is written but the handler does not return
BearerGate_NoReturn(r) ==
    /\ pc[r] = "bearer"
    /\ IF AuthorizationOK(req[r].authorization, bearerToken)
       THEN UNCHANGED resp
       ELSE resp' = [resp EXCEPT ![r] = HttpError("Unauthorized", 401)]
    /\ pc' = [pc EXCEPT ![r] = "split"]
    /\ UNCHANGED << config, env, req, loc, trace >>

\* the server calls the handler with any request
Receive(r) == Serve(r, Requests)

\* the bearer token stage
BearerGate(r) ==
    /\ pc[r] = "bearer"
    /\ IF AuthorizationOK(req[r].authorization, bearerToken)
       THEN /\ pc' = [pc EXCEPT ![r] = "split"]
            /\ UNCHANGED resp
       ELSE /\ resp' = [resp EXCEPT ![r] = HttpError("Unauthorized", 401)]
            /\ pc' = [pc EXCEPT ![r] = "done"]
    /\ UNCHANGED << config, env, req, loc, trace >>

\* mutant: a peer address that does not split is used as it is
ExtractClientIP_FallbackRaw(r) ==
    /\ pc[r] = "split"
    /\ LET hp == SplitHostPort(req[r].remoteAddr)
       IN  loc' = [loc EXCEPT ![r].clientIP = IF hp.err THEN req[r].remoteAddr ELSE hp.host]
    /\ pc' = [pc EXCEPT ![r] = "fcrdns"]
    /\ UNCHANGED << config, env, req, resp, trace >>

\* mutant: the client address is kept in a variable of the package, which all
\* the running handlers share
ExtractClientIP_Shared(r) ==
    /\ pc[r] = "split"
    /\ LET hp == SplitHostPort(req[r].remoteAddr)
       IN  IF hp.err
           THEN /\ resp' = [resp EXCEPT ![r] = HttpError("Forbidden", 403)]
                /\ pc' = [pc EXCEPT ![r] = "done"]
                /\ UNCHANGED loc
           ELSE /\ loc' = [h \in DOMAIN loc |-> [loc[h] EXCEPT !.clientIP = hp.host]]
                /\ pc' = [pc EXCEPT ![r] = "fcrdns"]
                /\ UNCHANGED resp
    /\ UNCHANGED << config, env, req, trace >>

\* the client address is taken from r.RemoteAddr
ExtractClientIP(r) ==
    /\ pc[r] = "split"
    /\ LET hp == SplitHostPort(req[r].remoteAddr)
       IN  IF hp.err
           THEN /\ resp' = [resp EXCEPT ![r] = HttpError("Forbidden", 403)]
                /\ pc' = [pc EXCEPT ![r] = "done"]
                /\ UNCHANGED loc
           ELSE /\ loc' = [loc EXCEPT ![r].clientIP = hp.host]
                /\ pc' = [pc EXCEPT ![r] = "fcrdns"]
                /\ UNCHANGED resp
    /\ UNCHANGED << config, env, req, trace >>

\* mutant: a denied caller with a malformed path is told so
FCrDNSGate_PathFirst(r) ==
    /\ pc[r] = "gate"
    /\ IF loc[r].verdict = "allowed"
       THEN /\ pc' = [pc EXCEPT ![r] = "parse"]
            /\ UNCHANGED resp
       ELSE /\ resp' = [resp EXCEPT ![r] =
                          IF ValidatePath(req[r].path).ok THEN HttpError("Forbidden", 403)
                          ELSE ValidatePath(req[r].path).resp]
            /\ pc' = [pc EXCEPT ![r] = "done"]
    /\ UNCHANGED << config, env, req, loc, trace >>

\* mutant: a check that did not succeed is reported as a server error
FCrDNSGate_DeniedIs500(r) ==
    /\ pc[r] = "gate"
    /\ IF loc[r].verdict = "allowed"
       THEN /\ pc' = [pc EXCEPT ![r] = "parse"]
            /\ UNCHANGED resp
       ELSE /\ resp' = [resp EXCEPT ![r] = HttpError("Internal Server Error", 500)]
            /\ pc' = [pc EXCEPT ![r] = "done"]
    /\ UNCHANGED << config, env, req, loc, trace >>

\* the handler acts on the verdict of isAllowedByFCrDNS
FCrDNSGate(r) ==
    /\ pc[r] = "gate"
    /\ IF loc[r].verdict = "allowed"
       THEN /\ pc' = [pc EXCEPT ![r] = "parse"]
            /\ UNCHANGED resp
       ELSE /\ resp' = [resp EXCEPT ![r] = HttpError("Forbidden", 403)]
            /\ pc' = [pc EXCEPT ![r] = "done"]
    /\ UNCHANGED << config, env, req, loc, trace >>

\* the path is parsed and validated
ParsePath(r) ==
    /\ pc[r] = "parse"
    /\ LET v == ValidatePath(req[r].path)
       IN  IF v.ok
           THEN /\ loc' = [loc EXCEPT ![r].domain = v.domain, ![r].fileName = v.fileName]
                /\ pc' = [pc EXCEPT ![r] = "read"]
                /\ UNCHANGED resp
           ELSE /\ resp' = [resp EXCEPT ![r] = v.resp]
                /\ pc' = [pc EXCEPT ![r] = "done"]
                /\ UNCHANGED loc
    /\ UNCHANGED << config, env, req, trace >>

\* mutant: a file that was served is removed, as after a rename or a one-time
\* download
ReadFile_Consume(r) ==
    /\ pc[r] = "read"
    /\ \E certPath \in { CertPath(certsBaseDir, loc[r].domain, loc[r].fileName) } :
           /\ loc' = [loc EXCEPT ![r].certPath = certPath]
           /\ trace' = [trace EXCEPT ![r] = Append(@, Event("ReadFile", certPath))]
           /\ resp' = [resp EXCEPT ![r] = ReadResponse(OsReadFile(certPath))]
           /\ fs' = [p \in DOMAIN fs |-> IF p = certPath THEN ENOENT ELSE fs[p]]
    /\ pc' = [pc EXCEPT ![r] = "done"]
    /\ UNCHANGED << config, rdns, fdns, silent, req >>

\* the file is read and served
ReadFile(r) ==
    /\ pc[r] = "read"
    /\ \E certPath \in { CertPath(certsBaseDir, loc[r].domain, loc[r].fileName) } :
           /\ loc' = [loc EXCEPT ![r].certPath = certPath]
           /\ trace' = [trace EXCEPT ![r] = Append(@, Event("ReadFile", certPath))]
           /\ resp' = [resp EXCEPT ![r] = ReadResponse(OsReadFile(certPath))]
    /\ pc' = [pc EXCEPT ![r] = "done"]
    /\ UNCHANGED << config, env, req >>

----------------------------------------------------------------------------
(* Specifications                                                          *)

\* resolver configurations of the handler runs: an allowlist with the zones
Zone(allow, rev, fwd) ==
    [allow |-> allow,
     rdns |-> [ip \in IPs |-> IF ip \in DOMAIN rev THEN rev[ip] ELSE DnsErr],
     fdns |-> [h \in HostNames |-> IF h \in DOMAIN fwd THEN fwd[h] ELSE DnsErr]]

\* a function with the single pair k :> v
One(k, v) == [x \in { k } |-> v]

DnsScenarios ==
    { \* reverse and forward agree
      Zone(<< HostClient >>, One(IP5, DnsOk(<< HostClient \o Dot >>)), One(HostClient, DnsOk(<< IP5 >>))),
      \* the forward answer excludes the client
      Zone(<< HostClient >>, One(IP5, DnsOk(<< HostClient \o Dot >>)), One(HostClient, DnsOk(<< IP9 >>))),
      \* no allowlist
      Zone(<< >>, One(IP5, DnsOk(<< HostClient \o Dot >>)), One(HostClient, DnsOk(<< IP5 >>))),
      \* the PTR name does not resolve forward (no record, or the resolver gave up)
      Zone(<< HostClient >>, One(IP5, DnsOk(<< HostClient \o Dot >>)), [h \in {} |-> DnsErr]),
      \* no PTR data at all
      Zone(<< HostClient >>, [ip \in {} |-> DnsErr], One(HostClient, DnsOk(<< IP5 >>))),
      \* two PTR names: the first fails to resolve, the second confirms; the
      \* IPv6 client is confirmed too
      Zone(<< HostOther, HostClient >>,
           [ip \in { IP5, IP6 } |->
               IF ip = IP5 THEN DnsOk(<< HostOther \o Dot, HostClientUpper \o Dot >>)
               ELSE DnsOk(<< HostClient \o Dot >>)],
           [h \in { HostClientUpper, HostClient } |->
               IF h = HostClientUpper THEN DnsOk(<< IP9, IP5 >>) ELSE DnsOk(<< IP6 >>)]) }

\* the lookups that never return: none (the resolver answers or gives up by
\* itself), every forward lookup, or every lookup
SilentSets == { {}, HostNames, IPs \cup HostNames }

\* the handler invocations of a run
Handlers == { 1 }

\* the server: a handler built from a configuration, serving requests
Init ==
    /\ bearerToken = Token
    /\ certsBaseDir \in Roots
    /\ \E z \in DnsScenarios :
          /\ dnsAllowlist = z.allow
          /\ rdns = z.rdns
          /\ fdns = z.fdns
    /\ fs \in FileSystems(certsBaseDir)
    /\ silent \in SilentSets
    /\ pc = [r \in Handlers |-> "idle"]
    /\ req = [r \in Handlers |-> NoRequest]
    /\ loc = [r \in Handlers |-> NoLocals]
    /\ resp = [r \in Handlers |-> NoResponse]
    /\ trace = [r \in Handlers |-> << >>]

Next ==
    \/ \E r \in DOMAIN pc : Receive(r)
    \/ \E r \in DOMAIN pc : BearerGate(r)
    \/ \E r \in DOMAIN pc : ExtractClientIP(r)
    \/ \E r \in DOMAIN pc : LookupAddr(r)
    \/ \E r \in DOMAIN pc : LookupHost(r)
    \/ \E r \in DOMAIN pc : FCrDNSGate(r)
    \/ \E r \in DOMAIN pc : ParsePath(r)
    \/ \E r \in DOMAIN pc : ReadFile(r)

Spec == Init /\ [][Next]_vars

\* the steps of the handler invocation r: its goroutine, once started, keeps running
HandlerStep(r) ==
    \/ BearerGate(r)
    \/ ExtractClientIP(r)
    \/ LookupAddr(r)
    \/ LookupHost(r)
    \/ FCrDNSGate(r)
    \/ ParsePath(r)
    \/ ReadFile(r)

\* requests that end at each stage of the pipeline
SampleRequests ==
    [authorization : { << >>, BearerPrefix \o Token },
     remoteAddr : { IP5 \o <<":","4","7","1","1">>, IP9 \o <<":","4","7","1","1">>, IP5 },
     path : { CertsPrefix \o ExampleOrg \o Slash \o FullchainPem,
              CertsPrefix \o ExampleOrg \o Slash \o PrivkeyPem,
              CertsPrefix \o ExampleOrg \o Slash \o SecretTxt,
              CertsPrefix \o DotDot \o Slash \o FullchainPem }]

\* the server calls the handler with one of the sample requests
ReceiveSample(r) == Serve(r, SampleRequests)

NextLive ==
    \/ \E r \in DOMAIN pc : ReceiveSample(r)
    \/ \E r \in DOMAIN pc : HandlerStep(r)

\* the server with its goroutines scheduled fairly
SpecLive == Init /\ [][NextLive]_vars /\ \A r \in Handlers : WF_vars(HandlerStep(r))

\* the number of handler invocations in flight at once
MaxConc == 2

\* the requests of the concurrent runs: with and without the credential, from
\* three peers, for a served and for a refused file
ConcRequests ==
    [authorization : { << >>, BearerPrefix \o Token },
     remoteAddr : { IP5 \o <<":","4","7","1","1">>, <<"[","2","0","0","1",":","d","b","8",":",":","5","]",":","4","4","3">>, IP9 \o <<":","4","7","1","1">> },
     path : { CertsPrefix \o ExampleOrg \o Slash \o FullchainPem,
              CertsPrefix \o ExampleOrg \o Slash \o SecretTxt }]

\* net/http runs every request in a goroutine of its own, all of them calling
\* the one handler value that main registered; the zones are those with two
\* allowlist entries, where a check takes up to three resolver calls
InitConc ==
    /\ bearerToken = Token
    /\ certsBaseDir \in { <<"/","e","t","c","/","l","e","t","s","e","n","c","r","y","p","t","/","l","i","v","e">> }
    /\ \E z \in DnsScenarios :
          /\ Len(z.allow) = 2
          /\ dnsAllowlist = z.allow
          /\ rdns = z.rdns
          /\ fdns = z.fdns
    /\ fs \in FileSystems(certsBaseDir)
    /\ silent = {}
    /\ pc = [r \in 1..MaxConc |-> "idle"]
    /\ req = [r \in 1..MaxConc |-> NoRequest]
    /\ loc = [r \in 1..MaxConc |-> NoLocals]
    /\ resp = [r \in 1..MaxConc |-> NoResponse]
    /\ trace = [r \in 1..MaxConc |-> << >>]

\* the server calls the handler with one of the requests of the concurrent runs
ReceiveConc(r) == Serve(r, ConcRequests)

\* any handler in flight takes its next step
NextConc ==
    \/ \E r \in DOMAIN pc : ReceiveConc(r)
    \/ \E r \in DOMAIN pc : BearerGate(r)
    \/ \E r \in DOMAIN pc : ExtractClientIP(r)
    \/ \E r \in DOMAIN pc : LookupAddr(r)
    \/ \E r \in DOMAIN pc : LookupHost(r)
    \/ \E r \in DOMAIN pc : FCrDNSGate(r)
    \/ \E r \in DOMAIN pc : ParsePath(r)
    \/ \E r \in DOMAIN pc : ReadFile(r)

SpecConc == InitConc /\ [][NextConc]_vars

\* isAllowedByFCrDNS alone, called with a client address and an allowlist
\* against arbitrary zones
ClientIPs == { IP5, IP9 }

InitFCrDNS ==
    /\ bearerToken = Token
    /\ certsBaseDir \in { <<"/","e","t","c","/","l","e","t","s","e","n","c","r","y","p","t","/","l","i","v","e">> }
    /\ dnsAllowlist \in SeqsUpTo(HostNames, MaxAllow)
    /\ \E ip \in ClientIPs, ans \in ReverseAnswers :
          /\ rdns = [a \in IPs |-> IF a = ip THEN ans ELSE DnsErr]
          /\ loc = [r \in Handlers |-> [NoLocals EXCEPT !.clientIP = ip]]
    /\ fdns \in [HostNames -> ForwardAnswers]
    /\ fs = [p \in {} |-> ENOENT]
    /\ silent = {}
    /\ pc = [r \in Handlers |-> "fcrdns"]
    /\ req = [r \in Handlers |-> NoRequest]
    /\ resp = [r \in Handlers |-> NoResponse]
    /\ trace = [r \in Handlers |-> << >>]

NextFCrDNS ==
    \/ \E r \in DOMAIN pc : LookupAddr(r)
    \/ \E r \in DOMAIN pc : LookupHost(r)

SpecFCrDNS == InitFCrDNS /\ [][NextFCrDNS]_vars

\* isAllowedByFCrDNS for one client address, every allowlist and every PTR
\* answer, each hostname either failing to resolve or resolving to a set that
\* holds the client address
InitOrder ==
    /\ bearerToken = Token
    /\ certsBaseDir \in { <<"/","e","t","c","/","l","e","t","s","e","n","c","r","y","p","t","/","l","i","v","e">> }
    /\ dnsAllowlist \in SeqsUpTo(HostNames, MaxAllow)
    /\ \E ans \in ReverseAnswers :
          rdns = [a \in IPs |-> IF a = IP5 THEN ans ELSE DnsErr]
    /\ loc = [r \in Handlers |-> [NoLocals EXCEPT !.clientIP = IP5]]
    /\ fdns \in [HostNames -> { DnsErr, DnsOk(<< IP9, IP5 >>) }]
    /\ fs = [p \in {} |-> ENOENT]
    /\ silent = {}
    /\ pc = [r \in Handlers |-> "fcrdns"]
    /\ req = [r \in Handlers |-> NoRequest]
    /\ resp = [r \in Handlers |-> NoResponse]
    /\ trace = [r \in Handlers |-> << >>]

SpecOrder == InitOrder /\ [][NextFCrDNS]_vars

----------------------------------------------------------------------------
(* Vocabulary of the properties, stated from the request and the           *)
(* environment, not from the handler's local variables                     *)

Range(f) == { f[k] : k \in DOMAIN f }

Done(r) == pc[r] = "done"

\* the calls of one kind in a handler's trace
Calls(r, op) == { k \in 1..Len(trace[r]) : trace[r][k].op = op }

\* stage 1: the header is exactly "Bearer " followed by the secret
CredentialOK(q) == q.authorization = BearerPrefix \o bearerToken

\* stage 2: the peer address splits into host and port
ClientAddrOK(q) == ~SplitHostPort(q.remoteAddr).err
ClientAddr(q) == SplitHostPort(q.remoteAddr).host

\* forward-confirmed reverse DNS, as a statement about the zones: some PTR name
\* of ip is, without its trailing dot, an allowlist entry up to letter case, and
\* resolves forward to a set of addresses that holds ip
Confirms(ptr, ip, allowlist) ==
    LET h == IF ptr # << >> /\ ptr[Len(ptr)] = "." THEN SubSeq(ptr, 1, Len(ptr) - 1) ELSE ptr
    IN  /\ \E a \in Range(allowlist) : EqualFold(h, a)
        /\ ~ForwardLookup(h).err
        /\ ip \in Range(ForwardLookup(h).vals)

FCrDNSAccepts(ip, allowlist) ==
    \E ptr \in Range(ReverseLookup(ip).vals) : Confirms(ptr, ip, allowlist)

\* stage 3
FCrDNSOK(q) == FCrDNSAccepts(ClientAddr(q), dnsAllowlist)

\* stages 1 to 3: the caller is authorized
Authorized(q) == CredentialOK(q) /\ ClientAddrOK(q) /\ FCrDNSOK(q)

\* the path after the /certs/ prefix
HasCertsPrefix(q) == HasPrefix(q.path, CertsPrefix)
TailOf(q) == From(q.path, Len(CertsPrefix) + 1)

\* the tail is domain "/" rest: the pieces at the first separator
HasSeparator(q) == \E k \in 1..Len(TailOf(q)) : TailOf(q)[k] = "/"
FirstSep(q) == CHOOSE k \in 1..Len(TailOf(q)) :
                   TailOf(q)[k] = "/" /\ \A m \in 1..(k - 1) : TailOf(q)[m] # "/"
DomainSeg(q) == IF HasSeparator(q) THEN SubSeq(TailOf(q), 1, FirstSep(q) - 1) ELSE TailOf(q)
FileSeg(q) == IF HasSeparator(q) THEN From(TailOf(q), FirstSep(q) + 1) ELSE << >>

\* all the segments of the tail
Segments(q) == SplitN(TailOf(q), Slash, -1)

\* a traversal token in a segment
HasTraversal(s) ==
    \/ \E k \in 1..(Len(s) - 1) : s[k] = "." /\ s[k + 1] = "."
    \/ \E k \in 1..Len(s) : s[k] = "/" \/ s[k] = "\\"

\* stage 4: the path validates to a (domain, allowed file name) pair
PathOK(q) ==
    /\ HasCertsPrefix(q)
    /\ HasSeparator(q)
    /\ DomainSeg(q) # << >>
    /\ ~HasTraversal(DomainSeg(q))
    /\ FileSeg(q) \in allowedCertFiles

\* the file root/domain/file of a request
RequestedFile(q) == Clean(certsBaseDir \o Slash \o DomainSeg(q) \o Slash \o FileSeg(q))

\* stage 5: that file is there and is read
FileOK(q) == OsReadFile(RequestedFile(q)).err = ""

----------------------------------------------------------------------------
(* C1                                                                      *)

\* C1: a finished request has the success response, status 200 with the bytes
\* of the file root/domain/file as its body, if and only if all the gating stages
\* succeed: the credential is "Bearer " + token, the FCrDNS check accepts the
\* client address, the path validates to a (domain, allowed file) pair, and the
\* file is there to be read.
C1_SuccessIffAllStages ==
    \A r \in DOMAIN pc :
        Done(r) =>
            /\ (resp[r].status = 200) <=> (Authorized(req[r]) /\ PathOK(req[r]) /\ FileOK(req[r]))
            /\ resp[r].status = 200 =>
                  /\ resp[r].body = OsReadFile(RequestedFile(req[r])).data
                  /\ resp[r].body = BytesAt(RequestedFile(req[r]))
                  /\ resp[r].contentType = "application/x-pem-file"

\* scenario A: the allowlisted, forward-confirmed client is served example.org/fullchain.pem
C1_Witness ==
    \E r \in DOMAIN pc :
        /\ Done(r)
        /\ resp[r].status = 200
        /\ dnsAllowlist = << HostClient >>
        /\ ClientAddr(req[r]) = IP5
        /\ req[r].path = CertsPrefix \o ExampleOrg \o Slash \o FullchainPem
        /\ resp[r].body = BytesAt(FilepathJoin(<< certsBaseDir, ExampleOrg, FullchainPem >>))

----------------------------------------------------------------------------
(* C2                                                                      *)

\* the stages a handler has entered, by its position and its response
Entered(r, stage) ==
    CASE stage = "client" -> pc[r] \in { "split", "fcrdns", "forward", "gate", "parse", "read" }
                             \/ (Done(r) /\ resp[r].status # 401)
      [] stage = "fcrdns" -> pc[r] \in { "fcrdns", "forward", "gate", "parse", "read" }
                             \/ Calls(r, "LookupAddr") # {}
                             \/ (Done(r) /\ resp[r].status \in { 200, 400, 404, 500 })
      [] stage = "path"   -> pc[r] \in { "parse", "read" }
                             \/ (Done(r) /\ resp[r].status \in { 200, 400, 404, 500 })
      [] stage = "read"   -> pc[r] = "read" \/ Calls(r, "ReadFile") # {}

\* C2: the pipeline short-circuits on the first failing stage: a stage is
\* entered only when every stage before it has succeeded, a finished handler
\* takes no further step, and a request whose credential is missing or wrong
\* ends with 401 without any reverse lookup, forward lookup or file read.
C2_ShortCircuit ==
    \A r \in DOMAIN pc :
        /\ Entered(r, "client") => CredentialOK(req[r])
        /\ Entered(r, "fcrdns") => CredentialOK(req[r]) /\ ClientAddrOK(req[r])
        /\ Entered(r, "path") => Authorized(req[r])
        /\ Entered(r, "read") => Authorized(req[r]) /\ PathOK(req[r])
        /\ trace[r] # << >> => CredentialOK(req[r]) /\ ClientAddrOK(req[r])
        /\ Calls(r, "LookupHost") # {} => Calls(r, "LookupAddr") # {}
        /\ Done(r) /\ ~CredentialOK(req[r]) => resp[r].status = 401 /\ trace[r] = << >>
        /\ Done(r) /\ resp[r].status \in { 401, 403, 400 } => Calls(r, "ReadFile") = {}
        /\ Done(r) /\ resp[r].status = 403 /\ ~ClientAddrOK(req[r]) => trace[r] = << >>
        /\ Done(r) =>
              ~ENABLED (BearerGate(r) \/ ExtractClientIP(r) \/ LookupAddr(r) \/ LookupHost(r)
                          \/ FCrDNSGate(r) \/ ParsePath(r) \/ ReadFile(r))

\* scenario E: no Authorization header, from a client FCrDNS would accept, for a
\* file that is there: 401 and not one call made
C2_Witness ==
    \E r \in DOMAIN pc :
        /\ Done(r)
        /\ req[r].authorization = << >>
        /\ ClientAddrOK(req[r]) /\ FCrDNSOK(req[r]) /\ PathOK(req[r]) /\ FileOK(req[r])
        /\ resp[r].status = 401
        /\ trace[r] = << >>

----------------------------------------------------------------------------
(* C3                                                                      *)

\* the response to a caller that is not authorized: it is computed from the
\* credential alone, so neither the path nor the files enter it
AuthFailureResponse(q) ==
    IF ~CredentialOK(q) THEN HttpError("Unauthorized", 401) ELSE HttpError("Forbidden", 403)

\* C3: authorization precedes resource resolution and leaks nothing about the
\* file system: the response to a request that fails the credential, the
\* client-address or the FCrDNS stage is fixed by the failing stage alone
\* (401 Unauthorized, or 403 Forbidden), whatever the path and whatever files
\* exist, and no file is read for it; so 200, 400, 404 and 500 go only to
\* callers that have passed the bearer gate and the FCrDNS check.
C3_NoLeakBeforeAuthorization ==
    \A r \in DOMAIN pc :
        Done(r) =>
            /\ ~Authorized(req[r]) =>
                  /\ resp[r] = AuthFailureResponse(req[r])
                  /\ Calls(r, "ReadFile") = {}
            /\ resp[r].status \in { 200, 400, 404, 500 } =>
                  CredentialOK(req[r]) /\ ClientAddrOK(req[r]) /\ FCrDNSOK(req[r])

\* a caller with the right credential that FCrDNS rejects asks for a malformed
\* path while the certificate files exist: plain 403
C3_Witness ==
    \E r \in DOMAIN pc :
        /\ Done(r)
        /\ CredentialOK(req[r]) /\ ClientAddrOK(req[r]) /\ ~FCrDNSOK(req[r])
        /\ ~PathOK(req[r])
        /\ OsReadFile(FilepathJoin(<< certsBaseDir, ExampleOrg, FullchainPem >>)).err = ""
        /\ resp[r] = HttpError("Forbidden", 403)

----------------------------------------------------------------------------
(* C4                                                                      *)

\* the PTR names of ip that are allowlist entries once the trailing dot is gone
AllowlistedPtrs(ip, allowlist) ==
    { ptr \in Range(ReverseLookup(ip).vals) :
          \E a \in Range(allowlist) : EqualFold(TrimSuffix(ptr, Dot), a) }

\* C4: isAllowedByFCrDNS(clientIP, allowlist) returns true if and only if some
\* name of the reverse lookup of clientIP, stripped of its trailing dot, equals an
\* allowlist entry up to letter case and its forward lookup succeeds and contains
\* clientIP. It returns false when no PTR name is allowlisted, and when no
\* allowlisted PTR name resolves forward to clientIP.
C4_FCrDNSIffForwardConfirmed ==
    \A r \in DOMAIN pc :
        pc[r] = "gate" =>
            LET ip == loc[r].clientIP
            IN  /\ loc[r].verdict \in { "allowed", "denied" }
                /\ (loc[r].verdict = "allowed") <=> FCrDNSAccepts(ip, dnsAllowlist)
                /\ AllowlistedPtrs(ip, dnsAllowlist) = {} => loc[r].verdict = "denied"
                /\ (\A ptr \in AllowlistedPtrs(ip, dnsAllowlist) :
                       ip \notin Range(ForwardLookup(TrimSuffix(ptr, Dot)).vals))
                      => loc[r].verdict = "denied"

\* the PTR name differs from the allowlist entry in its trailing dot and in
\* letter case, and its forward lookup holds the client address among others
C4_Witness ==
    \E r \in DOMAIN pc :
        /\ pc[r] = "gate"
        /\ loc[r].verdict = "allowed"
        /\ dnsAllowlist = << HostClient >>
        /\ loc[r].ptrs = << HostClientUpper \o Dot >>
        /\ ForwardLookup(HostClientUpper) = DnsOk(<< IP9, IP5 >>)

----------------------------------------------------------------------------
(* C5                                                                      *)

\* C5: every Authorization header value that is not exactly "Bearer " followed
\* by the configured secret is answered 401 Unauthorized, whatever the client
\* address, the zones, and the requested domain and file.
C5_BadCredentialIs401 ==
    \A r \in DOMAIN pc :
        Done(r) /\ req[r].authorization # BearerPrefix \o bearerToken =>
            /\ resp[r].status = 401
            /\ resp[r].body = << "Unauthorized", "\n" >>

\* two spaces after the scheme, from a client FCrDNS accepts, for a file that is there
C5_Witness ==
    \E r \in DOMAIN pc :
        /\ Done(r)
        /\ req[r].authorization = BearerPrefix \o << " " >> \o bearerToken
        /\ ClientAddrOK(req[r]) /\ FCrDNSOK(req[r]) /\ PathOK(req[r]) /\ FileOK(req[r])
        /\ resp[r].status = 401

----------------------------------------------------------------------------
(* C6                                                                      *)

\* both pieces at the first separator are there
TwoPieces(q) == HasSeparator(q) /\ DomainSeg(q) # << >> /\ FileSeg(q) # << >>

\* C6 as claimed: an authorized request whose file-name segment is outside the
\* allowed set gets 404 Not Found and never 400, whatever the domain segment is.
C6_Original ==
    \A r \in DOMAIN pc :
        Done(r) /\ Authorized(req[r]) /\ HasCertsPrefix(req[r]) /\ TwoPieces(req[r])
            /\ FileSeg(req[r]) \notin allowedCertFiles
        => resp[r] = HttpError("Not Found", 404)

\* C6 as amended: an authorized request whose domain segment is non-empty and
\* free of "..", "/" and "\", and whose non-empty file-name segment is outside the
\* allowed set, gets 404 Not Found, never 400, and no file is read, even if a file
\* of that name exists; with ".." or "\" in the domain segment the answer is 400
\* whatever the file name.
C6_DisallowedFileIs404 ==
    \A r \in DOMAIN pc :
        Done(r) /\ Authorized(req[r]) /\ HasCertsPrefix(req[r]) /\ TwoPieces(req[r])
            /\ FileSeg(req[r]) \notin allowedCertFiles
        => /\ Calls(r, "ReadFile") = {}
           /\ IF HasTraversal(DomainSeg(req[r]))
              THEN resp[r] = HttpError("Bad Request", 400)
              ELSE resp[r] = HttpError("Not Found", 404)

\* scenario D: example.org/secret.txt is on disk and is answered 404
C6_Witness ==
    \E r \in DOMAIN pc :
        /\ Done(r)
        /\ Authorized(req[r])
        /\ req[r].path = CertsPrefix \o ExampleOrg \o Slash \o SecretTxt
        /\ OsReadFile(FilepathJoin(<< certsBaseDir, ExampleOrg, SecretTxt >>)).err = ""
        /\ resp[r].status = 404

----------------------------------------------------------------------------
(* C7                                                                      *)

\* the tail consists of exactly two non-empty segments
ExactlyTwoSegments(q) ==
    Len(Segments(q)) = 2 /\ Segments(q)[1] # << >> /\ Segments(q)[2] # << >>

\* C7 as claimed: an authorized request whose path after /certs/ does not
\* consist of exactly two non-empty segments (more than two segments included)
\* gets 400 and no file is read.
C7_Original ==
    \A r \in DOMAIN pc :
        Done(r) /\ Authorized(req[r]) /\ HasCertsPrefix(req[r]) /\ ~ExactlyTwoSegments(req[r])
        => resp[r].status = 400 /\ Calls(r, "ReadFile") = {}

\* C7 as amended: an authorized request whose path after /certs/ does not split
\* at its first "/" into two non-empty pieces (no separator, an empty domain, or
\* nothing after the separator) gets 400 and no file is read. A path of more than
\* two segments with both pieces non-empty is not malformed for that: what
\* follows the first "/" is its file name, so it gets 400 only for ".." or "\"
\* in the domain segment and 404 otherwise, and no file is read either.
C7_MalformedShapeIs400 ==
    \A r \in DOMAIN pc :
        Done(r) /\ Authorized(req[r]) /\ HasCertsPrefix(req[r]) =>
            /\ ~TwoPieces(req[r]) =>
                  /\ resp[r] = HttpErrorOf(ShapeMessage, 400)
                  /\ Calls(r, "ReadFile") = {}
            /\ TwoPieces(req[r]) /\ Len(Segments(req[r])) > 2 =>
                  /\ Calls(r, "ReadFile") = {}
                  /\ IF HasTraversal(DomainSeg(req[r]))
                     THEN resp[r] = HttpError("Bad Request", 400)
                     ELSE resp[r] = HttpError("Not Found", 404)

\* a domain with nothing after the separator
C7_Witness ==
    \E r \in DOMAIN pc :
        /\ Done(r)
        /\ Authorized(req[r])
        /\ req[r].path = CertsPrefix \o ExampleOrg \o Slash
        /\ resp[r].status = 400
        /\ trace[r] # << >>

----------------------------------------------------------------------------
(* C8                                                                      *)

\* C8: an authorized request whose domain segment contains "..", "/" or "\"
\* gets 400 and the file system is not touched, whether or not a matching
\* directory or file exists.
C8_TraversalDomainIs400 ==
    \A r \in DOMAIN pc :
        Done(r) /\ Authorized(req[r]) /\ HasCertsPrefix(req[r]) /\ HasTraversal(DomainSeg(req[r]))
        => /\ resp[r].status = 400
           /\ \/ resp[r] = HttpError("Bad Request", 400)
              \/ resp[r] = HttpErrorOf(ShapeMessage, 400)
           /\ Calls(r, "ReadFile") = {}

\* scenario C: /certs/../etc/passwd/fullchain.pem, with that file on disk
C8_Witness ==
    \E r \in DOMAIN pc :
        /\ Done(r)
        /\ Authorized(req[r])
        /\ req[r].path = CertsPrefix \o DotDot \o <<"/","e","t","c","/","p","a","s","s","w","d","/","f","u","l","l","c","h","a","i","n",".","p","e","m">>
        /\ OsReadFile(FilepathJoin(<< certsBaseDir, DotDot, <<"e","t","c","/","p","a","s","s","w","d","/","f","u","l","l","c","h","a","i","n",".","p","e","m">> >>)).err = ""
        /\ resp[r] = HttpError("Bad Request", 400)

----------------------------------------------------------------------------
(* C9                                                                      *)

\* the elements of a path
Elements(p) == Range(SplitN(p, Slash, -1))

\* the last element of a path
Leaf(p) == SplitN(p, Slash, -1)[Len(SplitN(p, Slash, -1))]

\* p lies beneath the directory root: below the cleaned root, with no way up
Beneath(p, root) ==
    /\ HasPrefix(p, Clean(root) \o Slash)
    /\ Len(p) > Len(Clean(root)) + 1
    /\ DotDot \notin Elements(From(p, Len(Clean(root)) + 2))

\* C9: every path the handler reads is Join(root, domain, file) for the
\* request's domain segment and a file of the allowed set, lies beneath the
\* certificate root and has a leaf name of the allowed set; a 200 response
\* carries the bytes of such a path and nothing else.
C9_OnlyAllowedFilesBeneathRoot ==
    \A r \in DOMAIN pc :
        /\ \A k \in Calls(r, "ReadFile") :
              LET p == trace[r][k].arg
              IN  /\ FileSeg(req[r]) \in allowedCertFiles
                  /\ p = FilepathJoin(<< certsBaseDir, DomainSeg(req[r]), FileSeg(req[r]) >>)
                  /\ Beneath(p, certsBaseDir)
                  /\ Leaf(p) \in allowedCertFiles
        /\ Cardinality(Calls(r, "ReadFile")) <= 1
        /\ Done(r) /\ resp[r].status = 200 =>
              \E k \in Calls(r, "ReadFile") :
                  /\ OsReadFile(trace[r][k].arg).err = ""
                  /\ resp[r].body = OsReadFile(trace[r][k].arg).data

\* a file is read and served while files outside the root and outside the
\* allowed set exist
C9_Witness ==
    \E r \in DOMAIN pc :
        /\ Done(r)
        /\ resp[r].status = 200
        /\ Calls(r, "ReadFile") # {}
        /\ OsReadFile(FilepathJoin(<< certsBaseDir, DotDot, FullchainPem >>)).err = ""
        /\ OsReadFile(FilepathJoin(<< certsBaseDir, ExampleOrg, SecretTxt >>)).err = ""

----------------------------------------------------------------------------
(* C10                                                                     *)

\* C10: a resolution error for one candidate does not abort the evaluation: if
\* one allowlisted PTR name fails to resolve forward and another PTR name of the
\* same client address is allowlisted and forward-confirms, the verdict is true,
\* in whichever order the resolver returned the two.
C10_ForwardErrorDoesNotAbort ==
    \A r \in DOMAIN pc :
        pc[r] = "gate" =>
            LET ip == loc[r].clientIP
                ptrs == ReverseLookup(ip).vals
            IN  (\E a, b \in 1..Len(ptrs) :
                    /\ a # b
                    /\ ptrs[a] \in AllowlistedPtrs(ip, dnsAllowlist)
                    /\ ForwardLookup(TrimSuffix(ptrs[a], Dot)).err
                    /\ Confirms(ptrs[b], ip, dnsAllowlist))
                => loc[r].verdict = "allowed"

\* the first candidate's forward lookup failed and the second confirmed
C10_Witness ==
    \E r \in DOMAIN pc :
        /\ pc[r] = "gate"
        /\ loc[r].verdict = "allowed"
        /\ Len(trace[r]) = 3
        /\ trace[r][2].op = "LookupHost" /\ ForwardLookup(trace[r][2].arg).err
        /\ trace[r][3].op = "LookupHost" /\ trace[r][3].arg # trace[r][2].arg

----------------------------------------------------------------------------
(* C11                                                                     *)

----------------------------------------------------------------------------
(* C12                                                                     *)

\* the resolver calls of a handler that returned an error
FailedLookups(r, op) ==
    { k \in Calls(r, op) :
        IF op = "LookupAddr" THEN ReverseLookup(trace[r][k].arg).err
        ELSE ForwardLookup(trace[r][k].arg).err }

\* the forward lookups of a handler that confirmed the client address
ConfirmingLookups(r) ==
    { k \in Calls(r, "LookupHost") :
        /\ ~ForwardLookup(trace[r][k].arg).err
        /\ ClientAddr(req[r]) \in Range(ForwardLookup(trace[r][k].arg).vals) }

\* a 5xx response is the 500 of a failed read of a file that is there, after
\* all the gates have passed
ServerErrorOnlyFromRead(r) ==
    resp[r].status >= 500 =>
        /\ resp[r] = HttpError("Internal Server Error", 500)
        /\ Authorized(req[r])
        /\ PathOK(req[r])
        /\ OsReadFile(RequestedFile(req[r])).err \notin { "", "ENOENT" }

\* C12 as stated: a finished request during which any reverse or forward
\* lookup failed has the response 403, and a 5xx response is only the 500 of a
\* failed read after all gates passed
C12_Original ==
    \A r \in DOMAIN pc :
        Done(r) =>
            /\ (FailedLookups(r, "LookupAddr") \cup FailedLookups(r, "LookupHost") # {}
                    => resp[r] = HttpError("Forbidden", 403))
            /\ ServerErrorOnlyFromRead(r)

\* C12: a finished request whose reverse lookup failed, or whose forward
\* lookups were made and none of them confirmed the client address (each
\* failed or returned other addresses), has the response 403; a failed forward
\* lookup alone does not reject when another candidate confirms; a request the
\* FCrDNS check does not accept never has a 5xx response, and a 5xx response
\* is only the 500 of a failed read, other than of a missing file, after the
\* credential, FCrDNS and path validation all passed
C12_DnsErrorsNeverSurfaceAs5xx ==
    \A r \in DOMAIN pc :
        Done(r) =>
            /\ (FailedLookups(r, "LookupAddr") # {} => resp[r] = HttpError("Forbidden", 403))
            /\ (Calls(r, "LookupHost") # {} /\ ConfirmingLookups(r) = {}
                    => resp[r] = HttpError("Forbidden", 403))
            /\ (FailedLookups(r, "LookupHost") # {} /\ ConfirmingLookups(r) # {}
                    => resp[r].status # 403)
            /\ (~Authorized(req[r]) => resp[r].status < 500)
            /\ ServerErrorOnlyFromRead(r)

\* every forward lookup of the request failed: 403
C12_Witness ==
    \E r \in DOMAIN pc :
        /\ Done(r)
        /\ Calls(r, "LookupHost") # {}
        /\ FailedLookups(r, "LookupHost") = Calls(r, "LookupHost")
        /\ FailedLookups(r, "LookupAddr") = {}
        /\ resp[r] = HttpError("Forbidden", 403)

----------------------------------------------------------------------------
(* C13                                                                     *)

\* C13: a finished request that passed the credential, FCrDNS and path stages
\* has 404 when the file root/domain/file is missing, the generic 500 whose
\* body is the fixed text (no path in it) when reading it fails otherwise,
\* and else 200 with all the bytes of the file
C13_ReadOutcomeDecidesResponse ==
    \A r \in DOMAIN pc :
        Done(r) /\ Authorized(req[r]) /\ PathOK(req[r]) =>
            LET out == OsReadFile(RequestedFile(req[r]))
            IN  /\ out.err = "ENOENT" => resp[r] = HttpError("Not Found", 404)
                /\ out.err \notin { "", "ENOENT" } =>
                       /\ resp[r].status = 500
                       /\ resp[r].body = << "Internal Server Error", "\n" >>
                /\ out.err = "" =>
                       /\ resp[r].status = 200
                       /\ resp[r].body = fs[RequestedFile(req[r])].data

\* a read that failed for another reason than a missing file: the generic 500
C13_Witness ==
    \E r \in DOMAIN pc :
        /\ Done(r) /\ Authorized(req[r]) /\ PathOK(req[r])
        /\ OsReadFile(RequestedFile(req[r])) = EIO
        /\ trace[r][Len(trace[r])] = Event("ReadFile", RequestedFile(req[r]))
        /\ resp[r] = HttpError("Internal Server Error", 500)

----------------------------------------------------------------------------
(* C14                                                                     *)

\* C14: with the DNS answers and the files as they are, handler invocations
\* with the same request end with the same response, status 200 with the bytes
\* of the file when the request is authorized and the file is there, however
\* many of them run; and no step of any request, served or rejected, changes
\* the token, the allowlist, the certificate root, the resolver's zones or a
\* file (the allowed-file set is a constant of the handler)
C14_Idempotent ==
    /\ [](\A r1, r2 \in DOMAIN pc :
             Done(r1) /\ Done(r2) /\ req[r1] = req[r2] =>
                 /\ resp[r1] = resp[r2]
                 /\ Authorized(req[r1]) /\ PathOK(req[r1]) /\ FileOK(req[r1]) =>
                        resp[r1] = PemResponse(BytesAt(RequestedFile(req[r1]))))
    /\ [][UNCHANGED << config, env >>]_vars

\* the same authorized request was served twice, with the same bytes
C14_Witness ==
    \E r1, r2 \in DOMAIN pc :
        /\ r1 # r2
        /\ Done(r1) /\ Done(r2)
        /\ req[r1] = req[r2]
        /\ Authorized(req[r1])
        /\ resp[r1].status = 200
        /\ resp[r2] = resp[r1]
        /\ resp[r1].body = fs[RequestedFile(req[r1])].data

----------------------------------------------------------------------------
(* C19                                                                     *)

\* the response to request q when it is handled alone: the first stage that
\* fails answers, as a function of q, the configuration and the environment
SoloResponse(q) ==
    IF ~CredentialOK(q) THEN HttpError("Unauthorized", 401)
    ELSE IF ~ClientAddrOK(q) \/ ~FCrDNSOK(q) THEN HttpError("Forbidden", 403)
    ELSE IF ~ValidatePath(q.path).ok THEN ValidatePath(q.path).resp
    ELSE ReadResponse(OsReadFile(RequestedFile(q)))

\* the resolver and file calls of request q when it is handled alone end with
\* the read of its file, if it gets that far
SoloReads(q) ==
    IF Authorized(q) /\ ValidatePath(q.path).ok
    THEN { Event("ReadFile", RequestedFile(q)) }
    ELSE {}

\* C19: in every interleaving of the steps of the handlers in flight, each
\* finished handler has the response its request gets when handled alone
\* against the same zones and files, reads the file of its own request only,
\* and asks the resolver about its own peer only
C19_IndependentUnderConcurrency ==
    \A r \in DOMAIN pc :
        /\ Done(r) =>
              /\ resp[r] = SoloResponse(req[r])
              /\ { trace[r][k] : k \in Calls(r, "ReadFile") } = SoloReads(req[r])
        /\ \A k \in Calls(r, "LookupAddr") : trace[r][k].arg = ClientAddr(req[r])

\* two handlers in flight at once for different peers: one is served while the
\* other, with its reverse lookup done, is about to be refused
C19_Witness ==
    \E r1, r2 \in DOMAIN pc :
        /\ Done(r1)
        /\ resp[r1].status = 200
        /\ ClientAddr(req[r1]) = IP6
        /\ pc[r2] = "gate"
        /\ ClientAddr(req[r2]) = IP9
        /\ Calls(r2, "LookupAddr") # {}
        /\ loc[r2].verdict = "denied"

----------------------------------------------------------------------------
(* C15                                                                     *)

\* C15: with an empty allowlist isAllowedByFCrDNS returns false for every
\* client address, and it has made no reverse and no forward lookup when it
\* returns
C15_EmptyAllowlistFailsClosed ==
    \A r \in DOMAIN pc :
        Len(dnsAllowlist) = 0 =>
            /\ trace[r] = << >>
            /\ pc[r] = "gate" => loc[r].verdict = "denied"
            /\ pc[r] \in { "fcrdns", "gate" }

\* the client's PTR name resolves back to it, and still the check refuses
C15_Witness ==
    \E r \in DOMAIN pc :
        /\ pc[r] = "gate"
        /\ dnsAllowlist = << >>
        /\ loc[r].verdict = "denied"
        /\ trace[r] = << >>
        /\ ReverseLookup(loc[r].clientIP) = DnsOk(<< HostClient \o Dot >>)
        /\ loc[r].clientIP \in Range(ForwardLookup(HostClient).vals)

----------------------------------------------------------------------------
(* C16                                                                     *)

\* C16: in one FCrDNS check the reverse lookup is the first resolver call and
\* the only one of its kind, every forward lookup comes after it and is of the
\* hostname of a PTR name it returned that matches an allowlist entry up to
\* letter case; the hostname of a PTR name that matches no entry is never
\* forward-resolved, and after a reverse lookup that failed or returned no
\* name there is no forward lookup
C16_ReverseFirstForwardOnlyAllowlisted ==
    \A r \in DOMAIN pc :
        LET ip == loc[r].clientIP
            rev == ReverseLookup(ip)
        IN  /\ Calls(r, "LookupAddr") \subseteq { 1 }
            /\ \A k \in Calls(r, "LookupHost") :
                   /\ k > 1
                   /\ trace[r][1] = Event("LookupAddr", ip)
                   /\ \E ptr \in Range(rev.vals) :
                          /\ trace[r][k].arg = TrimSuffix(ptr, Dot)
                          /\ \E a \in Range(dnsAllowlist) : EqualFold(trace[r][k].arg, a)
            /\ \A ptr \in Range(rev.vals) \ AllowlistedPtrs(ip, dnsAllowlist) :
                   \A k \in Calls(r, "LookupHost") :
                       ~EqualFold(trace[r][k].arg, TrimSuffix(ptr, Dot))
            /\ rev.err \/ Len(rev.vals) = 0 => Calls(r, "LookupHost") = {}

\* of two PTR names only the allowlisted one, the second, was forward-resolved
C16_Witness ==
    \E r \in DOMAIN pc :
        /\ pc[r] = "gate"
        /\ dnsAllowlist = << HostClient >>
        /\ loc[r].ptrs = << HostOther \o Dot, HostClientUpper \o Dot >>
        /\ trace[r] = << Event("LookupAddr", loc[r].clientIP),
                         Event("LookupHost", HostClientUpper) >>

----------------------------------------------------------------------------
(* C17                                                                     *)

\* C17 as stated: within one check the reverse lookup is made at most once,
\* and a forward lookup of a hostname that failed is not issued again, also
\* when the allowlist or the PTR answer names the hostname more than once
C17_NoRetries ==
    \A r \in DOMAIN pc :
        /\ Cardinality(Calls(r, "LookupAddr")) <= 1
        /\ \A k1, k2 \in Calls(r, "LookupHost") :
               k1 < k2 /\ ForwardLookup(trace[r][k1].arg).err
                   => trace[r][k2].arg # trace[r][k1].arg

----------------------------------------------------------------------------
(* C18                                                                     *)

\* C18: a finished request with the correct credential whose peer address
\* does not split into host and port has the response 403, and its handler
\* made no resolver call and read no file
C18_UnsplittablePeerIs403 ==
    \A r \in DOMAIN pc :
        /\ Done(r) /\ CredentialOK(req[r]) /\ ~ClientAddrOK(req[r]) =>
               /\ resp[r] = HttpError("Forbidden", 403)
               /\ trace[r] = << >>
        /\ CredentialOK(req[r]) /\ ~ClientAddrOK(req[r]) =>
               pc[r] \in { "bearer", "split", "done" }

\* a peer address without a port, of a client the zones would confirm
C18_Witness ==
    \E r \in DOMAIN pc :
        /\ Done(r)
        /\ CredentialOK(req[r])
        /\ req[r].remoteAddr = IP5
        /\ FCrDNSAccepts(IP5, dnsAllowlist)
        /\ resp[r] = HttpError("Forbidden", 403)
        /\ trace[r] = << >>

----------------------------------------------------------------------------
(* C20                                                                     *)

\* two allowlists that name the same hosts, whatever the order, the letter
\* case and the repetitions of their entries
SameHosts(a, b) ==
    /\ \A x \in Range(a) : \E y \in Range(b) : EqualFold(x, y)
    /\ \A y \in Range(b) : \E x \in Range(a) : EqualFold(x, y)

\* the allowlists the handler may be given that stand for the same hosts
AllowlistVariants(allowlist) ==
    { b \in SeqsUpTo(HostNames, MaxAllow) : SameHosts(allowlist, b) }

\* the orders in which the resolver may return the same PTR names
PtrOrders(ptrs) ==
    { [k \in 1..Len(ptrs) |-> ptrs[f[k]]] : f \in Permutations(1..Len(ptrs)) }

\* C20: the verdict of isAllowedByFCrDNS for a client address and zones is
\* the same for every allowlist that names the same hosts, whatever the order,
\* the repetitions and the letter case of its entries, and for every order in
\* which the PTR names come back
C20_AllowlistIsCaseInsensitiveSet ==
    \A r \in DOMAIN pc :
        pc[r] = "gate" =>
            LET ip == loc[r].clientIP
                rev == ReverseLookup(ip)
                verdict == loc[r].verdict = "allowed"
            IN  /\ verdict = FCrDNSVerdict(ip, dnsAllowlist, rev)
                /\ \A b \in AllowlistVariants(dnsAllowlist) :
                       FCrDNSVerdict(ip, b, rev) = verdict
                /\ \A p \in PtrOrders(rev.vals) :
                       FCrDNSVerdict(ip, dnsAllowlist, [rev EXCEPT !.vals = p]) = verdict

\* accepted with the allowlist in another order and letter case than the PTR
\* names, the first candidate failing to resolve
C20_Witness ==
    \E r \in DOMAIN pc :
        /\ pc[r] = "gate"
        /\ loc[r].verdict = "allowed"
        /\ dnsAllowlist = << HostClientUpper, HostOther >>
        /\ loc[r].ptrs = << HostOther \o Dot, HostClient \o Dot >>
        /\ ForwardLookup(HostOther).err
        /\ Len(trace[r]) = 3
        /\ ~FCrDNSVerdict(loc[r].clientIP, << HostOther >>, ReverseLookup(loc[r].clientIP))

----------------------------------------------------------------------------
(* C21                                                                     *)

\* the elements of path p below the directory root
BelowRoot(p, root) == SplitN(From(p, Len(Clean(root)) + 2), Slash, -1)

\* C21 as stated: every path the handler reads is root/<domain>/<file>, a file
\* of the allowed set in a directory that is a direct child of the
\* certificate root; no accepted domain segment makes the joined path a file
\* directly in the root or in another directory
C21_TwoLevelsBelowRoot ==
    \A r \in DOMAIN pc :
        \A k \in Calls(r, "ReadFile") :
            LET p == trace[r][k].arg
                below == BelowRoot(p, certsBaseDir)
            IN  /\ HasPrefix(p, Clean(certsBaseDir) \o Slash)
                /\ Len(below) = 2
                /\ below[1] \notin { << >>, Dot, DotDot }
                /\ below[2] \in allowedCertFiles

====
